---------------------------- MODULE Spec2Model ----------------------------
(***************************************************************************)
(* Rejection sampler for the standard Gaussian truncated to x > c          *)
(* (scripts/truncated_gaussian_sampler.py and its class-based copy         *)
(* scripts/MonteCarloSampler.py).                                          *)
(*                                                                         *)
(* Python floats are modelled as binary floating-point numbers with a     *)
(* Prec-bit mantissa (the program's doubles have 53) and the exponent      *)
(* range of a double: a value is a record [k, m, e] that stands for        *)
(* m * 2^e when k = "fin"; k = "inf" is a silent overflow, and any other   *)
(* k is the name of the Python exception the expression raised, which      *)
(* every enclosing expression propagates.                                  *)
(***************************************************************************)
EXTENDS Integers, Sequences, FiniteSets, TLC

(* ------------------------------ bounds --------------------------------- *)

\* mantissa width of the modelled floats, in bits
Prec == 12
\* n ranges over -NegN .. MaxN
MaxN == 2
NegN == 1
\* the uniform source's grid: multiples of 2^-UBits, plus the largest float
\* below 1.0
UBits == 1
\* the per-call count of uniform draws saturates here
DrawCap == 4

(* --------------------------- float arithmetic --------------------------- *)

\* IEEE-754 double: largest binary exponent of a finite value, and the
\* exponent of the smallest positive (subnormal) value
EMax == 1023
EMinSub == 0 - 1074

Fin(m, e) == [k |-> "fin", m |-> m, e |-> e]
Zero == Fin(0, 0)
Inf == [k |-> "inf", m |-> 0, e |-> 0]
Exc(name) == [k |-> name, m |-> 0, e |-> 0]
\* a local variable that has not been assigned yet
Unset == [k |-> "unset", m |-> 0, e |-> 0]

IsFin(a) == a.k = "fin"
IsExc(a) == a.k \notin {"fin", "inf", "unset"}

\* the value of an expression, evaluated once: the operators below bind
\* each operand to a name before they inspect it, as an interpreter
\* evaluates an operand once before the operation
The(S) == CHOOSE v \in S : TRUE

Abs(i) == IF i < 0 THEN 0 - i ELSE i
Sgn(i) == IF i < 0 THEN 0 - 1 ELSE IF i = 0 THEN 0 ELSE 1

RECURSIVE BitLen(_)
BitLen(i) == IF i < 2 THEN i ELSE 1 + BitLen(i \div 2)

\* a float of mantissa m (at most Prec bits) and exponent ee: beyond the
\* double range the result is inf, below it 0.0
Pack(m, ee) ==
  IF ee + Prec - 1 > EMax THEN Inf
  ELSE IF ee + Prec - 1 < EMinSub THEN Zero
  ELSE Fin(m, ee)

\* a rounded-up mantissa that reached 2^Prec is renormalised
Carry(sg, q1, ee) ==
  IF q1 = 2 ^ Prec THEN Pack(sg * (2 ^ (Prec - 1)), ee + 1) ELSE Pack(sg * q1, ee)

\* round half to even: q0 the kept bits, rem the dropped ones
RoundQ(sg, q0, rem, half, ee) ==
  Carry(sg, IF rem > half \/ (rem = half /\ q0 % 2 = 1) THEN q0 + 1 ELSE q0, ee)

\* sh: the number of low bits of m that do not fit the mantissa
RoundSh(m, e, sh) ==
  IF sh <= 0 THEN Pack(m * (2 ^ (0 - sh)), e + sh)
  ELSE RoundQ(Sgn(m), Abs(m) \div (2 ^ sh), Abs(m) % (2 ^ sh), 2 ^ (sh - 1), e + sh)

\* the float nearest to m * 2^e
Round(m, e) ==
  IF m = 0 THEN Zero ELSE RoundSh(m, e, BitLen(Abs(m)) - Prec)

\* the first operand that is not a finite number decides a result that
\* cannot be computed: an exception propagates, inf stays inf
Bad(a, b) == IF ~IsFin(a) THEN a ELSE b

FromInt(i) == Round(i, 0)
\* the float j / 2^bits
Dyadic(j, bits) == Round(j, 0 - bits)
One == FromInt(1)
Two == FromInt(2)

FNeg(a) == The({IF IsFin(x) THEN Fin(0 - x.m, x.e) ELSE x : x \in {a}})

MulOf(x, y) ==
  IF ~(IsFin(x) /\ IsFin(y)) THEN Bad(x, y)
  ELSE Round(x.m * y.m, x.e + y.e)
FMul(a, b) == The({MulOf(x, y) : x \in {a}, y \in {b}})

\* the quotient num / den of two positive integers with a sticky last bit
QuotOf(sg, num, den, ee) ==
  Round(sg * (2 * (num \div den) + (IF num % den = 0 THEN 0 ELSE 1)), ee)
DivOf(x, y) ==
  IF ~(IsFin(x) /\ IsFin(y)) THEN Bad(x, y)
  ELSE IF y.m = 0 THEN Exc("ZeroDivisionError")
  ELSE QuotOf(Sgn(x.m) * Sgn(y.m), Abs(x.m) * (2 ^ (Prec + 2)), Abs(y.m),
              x.e - y.e - Prec - 3)
\* a / b: float division raises ZeroDivisionError on a zero divisor
FDiv(a, b) == The({DivOf(x, y) : x \in {a}, y \in {b}})

\* hi + lo for hi.e >= lo.e
AlignOf(hi, lo) ==
  IF hi.e - lo.e > Prec + 2 THEN hi
  ELSE Round(hi.m * (2 ^ (hi.e - lo.e)) + lo.m, lo.e)
AddOf(x, y) ==
  IF ~(IsFin(x) /\ IsFin(y)) THEN Bad(x, y)
  ELSE IF x.m = 0 THEN y
  ELSE IF y.m = 0 THEN x
  ELSE IF x.e >= y.e THEN AlignOf(x, y) ELSE AlignOf(y, x)
FAdd(a, b) == The({AddOf(x, y) : x \in {a}, y \in {b}})

FSub(a, b) == FAdd(a, FNeg(b))

\* comparisons of finite floats
FLt(a, b) == FSub(a, b).m < 0
FLe(a, b) == FSub(a, b).m <= 0

(* ----------------------- the math module's functions -------------------- *)

\* math.pi
MathPi == Round(843314857, 0 - 28)

\* fixed-point helpers of exp and log: 20 fractional bits, ln 2 split in two
\* words (LN2HI + LN2LO / 2^20 = ln 2 * 2^20)
FixBits == 20
FixOne == 2 ^ FixBits
LN2HI == 726817
LN2LO == 522194
KLn2(j) == j * LN2HI + (j * LN2LO) \div FixOne

\* a * b / 2^20 without overflowing 32 bits
MulFix(a, b) ==
  LET ah == a \div 1024
      al == a % 1024
      bh == b \div 1024
      bl == b % 1024
  IN ah * bh + (ah * bl + al * bh + (al * bl) \div 1024) \div 1024

RECURSIVE ExpSeries(_, _, _, _)
ExpSeries(r, j, term, acc) ==
  IF term = 0 \/ j > 16 THEN acc
  ELSE ExpSeries(r, j + 1, MulFix(term, r) \div j, acc + term)

ExpOf(a) ==
  IF ~IsFin(a) THEN a
  ELSE IF a.m = 0 THEN One
  ELSE IF a.e + Prec - 1 >= 10
       THEN (IF a.m > 0 THEN Exc("OverflowError") ELSE Zero)
  ELSE IF a.e + Prec - 1 < 0 - (FixBits + 1) THEN FAdd(One, a)
  ELSE LET x20 == IF a.e + FixBits >= 0 THEN a.m * (2 ^ (a.e + FixBits))
                  ELSE a.m \div (2 ^ (0 - (a.e + FixBits)))
           k0 == x20 \div LN2HI
           kk == IF x20 - KLn2(k0) < 0 THEN k0 - 1 ELSE k0
           r == x20 - KLn2(kk)
           v == Round(ExpSeries(r, 1, FixOne, 0), kk - FixBits)
       IN IF v.k = "inf" THEN Exc("OverflowError") ELSE v
\* math.exp(a): OverflowError ("math range error") above the double range,
\* 0.0 below it
MathExp(a) == The({ExpOf(x) : x \in {a}})

RECURSIVE AtanhSeries(_, _, _, _)
AtanhSeries(t2, j, pw, acc) ==
  IF pw = 0 \/ j > 8 THEN acc
  ELSE AtanhSeries(t2, j + 1, MulFix(pw, t2), acc + pw \div (2 * j + 1))

LogOf(a) ==
  IF ~IsFin(a) THEN a
  ELSE IF a.m <= 0 THEN Exc("ValueError")
  ELSE LET big == a.m * a.m >= 2 ^ (2 * Prec - 1)
           s == IF big THEN 2 ^ Prec ELSE 2 ^ (Prec - 1)
           e2 == IF big THEN a.e + Prec ELSE a.e + Prec - 1
           w == 29 - Prec
           num == (a.m - s) * (2 ^ w)
           den == a.m + s
           t == (num \div den) * (2 ^ (FixBits - w))
                  + ((num % den) * (2 ^ (FixBits - w))) \div den
       IN Round(KLn2(e2) + 2 * AtanhSeries(MulFix(t, t), 0, t, 0), 0 - FixBits)
\* math.log(a): ValueError ("math domain error") unless a > 0
MathLog(a) == The({LogOf(x) : x \in {a}})

RECURSIVE ISqrt(_, _, _)
\* the largest q in lo .. hi with q * q <= i
ISqrt(i, lo, hi) ==
  IF lo >= hi THEN lo
  ELSE LET mid == (lo + hi + 1) \div 2
       IN IF mid * mid <= i THEN ISqrt(i, mid, hi) ELSE ISqrt(i, lo, mid - 1)

SqrtOf(a) ==
  IF ~IsFin(a) THEN a
  ELSE IF a.m < 0 THEN Exc("ValueError")
  ELSE IF a.m = 0 THEN Zero
  ELSE LET s == IF (a.e - Prec) % 2 = 0 THEN Prec + 2 ELSE Prec + 3
           big == a.m * (2 ^ s)
           q == ISqrt(big, 0, 2 ^ 15)
           sticky == IF q * q = big THEN 0 ELSE 1
       IN Round(2 * q + sticky, (a.e - s) \div 2 - 1)
\* math.sqrt(a): ValueError ("math domain error") for a < 0
MathSqrt(a) == The({SqrtOf(x) : x \in {a}})

RECURSIVE PowInt(_, _)
PowInt(a, j) ==
  IF j = 0 THEN One
  ELSE IF j % 2 = 1 THEN FMul(a, PowInt(FMul(a, a), j \div 2))
  ELSE PowInt(FMul(a, a), j \div 2)

\* a ** j for a whole exponent j >= 0: Python's float power raises
\* OverflowError when the result leaves the double range
PowOf(x, p) == IF IsFin(x) /\ p.k = "inf" THEN Exc("OverflowError") ELSE p
Pow(a, j) == The({The({PowOf(x, p) : p \in {PowInt(x, j)}}) : x \in {a}})

RECURSIVE RangeProd(_, _)
\* lo * (lo + 1) * ... * hi
RangeProd(lo, hi) ==
  IF lo > hi THEN One
  ELSE IF lo = hi THEN FromInt(lo)
  ELSE FMul(RangeProd(lo, (lo + hi) \div 2), RangeProd((lo + hi) \div 2 + 1, hi))

\* math.factorial(j) as the float the division converts it to
MathFactorial(j) == RangeProd(1, j)

(* ------------------- scripts/truncated_gaussian_sampler.py -------------- *)

NegOne == FromInt(0 - 1)
Half == Dyadic(1, 1)
Four == FromInt(4)

\* range(125): the number of terms of the series
ErrTerms == 125

\* one pass of the loop body of err, without the accumulation:
\* ((-1.0)**i) * (x**((2.0*i)+1)) / (math.factorial(i)*((2*i)+1))
ErrTerm(x, i) ==
  FDiv(FMul(Pow(NegOne, i), Pow(x, 2 * i + 1)),
       FMul(MathFactorial(i), FromInt(2 * i + 1)))

RECURSIVE ErrLoop(_, _, _, _)
\* err_x after the passes lo .. hi of the for loop, entered with err_x = acc:
\* the terms are added in the order i = lo, lo + 1, ..., hi, and a pass that
\* raises ends the loop
ErrLoop(x, lo, hi, acc) ==
  IF IsExc(acc) \/ lo > hi THEN acc
  ELSE IF lo = hi THEN FAdd(acc, ErrTerm(x, lo))
  ELSE ErrLoop(x, (lo + hi) \div 2 + 1, hi, ErrLoop(x, lo, (lo + hi) \div 2, acc))

err(x) == FMul(FDiv(Two, MathSqrt(MathPi)), ErrLoop(x, 0, ErrTerms - 1, Zero))

\* approximation to the Gaussian CDF
Phi(x) == FMul(Half, FAdd(One, err(FDiv(x, MathSqrt(Two)))))

\* inverse of the exponential CDF with parameter lambda_0
inverse_exp_nosign(x, lambda_0) == FDiv(MathLog(FSub(One, x)), lambda_0)
inverse_exp_logx(x, lambda_0) == FDiv(FMul(NegOne, MathLog(x)), lambda_0)
inverse_exp(x, lambda_0) == FDiv(FMul(NegOne, MathLog(FSub(One, x))), lambda_0)

\* exponential density
expo(x, lambda_0) == FMul(lambda_0, MathExp(FMul(FNeg(lambda_0), x)))

\* Gaussian density
phi(x) == FDiv(MathExp(FDiv(FNeg(Pow(x, 2)), Two)), MathSqrt(FMul(Two, MathPi)))

\* line 36: lambda_0 = (c + math.sqrt((c**2.0)+4.0))/2.0
Lambda0_minus(cf) == FDiv(FSub(cf, MathSqrt(FAdd(Pow(cf, 2), Four))), Two)
Lambda0(cf) == FDiv(FAdd(cf, MathSqrt(FAdd(Pow(cf, 2), Four))), Two)

\* line 37
BoundB(cf, lambda_0, Phi_c) ==
  FDiv(MathExp(FDiv(FSub(Pow(lambda_0, 2), FMul(FMul(Two, lambda_0), cf)), Two)),
       FMul(FMul(MathSqrt(FMul(Two, MathPi)), lambda_0), FSub(One, Phi_c)))

\* line 38: const = ((1-Phi_c)*b)
Const(Phi_c, b) == FMul(FSub(One, Phi_c), b)

\* line 43: r = (phi(x+c)/(expo(x,lambda_0))*const)
Ratio_neg(x, cf, lambda_0, const) ==
  FMul(FDiv(phi(FAdd(x, cf)), expo(x, lambda_0)), FNeg(const))
Ratio(x, cf, lambda_0, const) ==
  FMul(FDiv(phi(FAdd(x, cf)), expo(x, lambda_0)), const)

\* line 40: while len(samples)<n
LoopCond_le(samples, nn) == Len(samples) <= nn
LoopCond(samples, nn) == Len(samples) < nn

\* line 45: if coin<r
Accepts(coin, r) == FLt(coin, r)

\* line 46: samples.append(x+c)
Appended_front(samples, x, cf) == <<FAdd(x, cf)>> \o samples
Appended(samples, x, cf) == Append(samples, FAdd(x, cf))

(* ------------------------------ the inputs ------------------------------ *)

\* truncation points c tried: the demonstration run's c = 4 (line 51), 0,
\* negative values, and 25, where x**249.0 in err leaves the double range
CValues == {0 - 24, 0 - 1, 0, 4, 25}
NValues == (0 - NegN) .. MaxN

\* values np.random.uniform() can return: a grid of multiples of 2^-UBits
\* and the largest float below 1.0; a source with a closed range [0, 1]
\* (the specification leaves the endpoint open) can also return 1.0
UTop == Dyadic(2 ^ Prec - 1, Prec)
Uniform(src) ==
  {Dyadic(j, UBits) : j \in 0 .. (2 ^ UBits - 1)} \cup {UTop}
    \cup (IF src = "closed" THEN {One} ELSE {})

\* names bound at module level when the sampler runs: the imports and defs
\* of truncated_gaussian_sampler.py; MonteCarloSampler.py has no import
TGS_globals ==
  {"math", "pd", "np", "sp", "plt", "err", "Phi", "inverse_exp", "expo",
   "phi", "truncated_gaussian_sampler"}
MCS_globals == {"MonteCarloSampler"}

(* ------------------------- the sampler's frames ------------------------- *)

VARIABLES
  n,       \* argument n
  c,       \* argument c (a Python int)
  source,  \* range of the uniform source: "half_open" [0,1) or "closed" [0,1]
  fn,      \* frame of truncated_gaussian_sampler(n, c), function-based
  cls      \* frame of MonteCarloSampler().truncated_gaussian_sampler(n, c)

vars == <<n, c, source, fn, cls>>

\* the locals of a call, before its first statement
Frame0 ==
  [pc |-> "call", exc |-> "", Phi_c |-> Unset, lambda_0 |-> Unset, b |-> Unset,
   const |-> Unset, samples |-> <<>>, x_inv |-> Unset, x |-> Unset, r |-> Unset,
   coin |-> Unset, drawn |-> <<>>, ndraws |-> 0]

Raise(f, name) == [f EXCEPT !.pc = "raised", !.exc = name]

\* lines 37-38, given the values of lines 35-36
TuneWith(cf, P, L) ==
  The({[Phi_c |-> P, lambda_0 |-> L, b |-> bb, const |-> Const(P, bb)] :
         bb \in {BoundB(cf, L, P)}})

\* lines 35-38 for one c: what each right-hand side evaluates to
Tune(cf) == The({TuneWith(cf, P, L) : P \in {Phi(cf)}, L \in {Lambda0(cf)}})

\* Tune, evaluated once per c
TuneMemo == {<<cc, Tune(FromInt(cc))>> : cc \in CValues}
TuneOf(cc) == (CHOOSE p \in TuneMemo : p[1] = cc)[2]

\* lines 35-39: the statements run in order, the first that raises ends the
\* call; the first name looked up is math (Phi, line 20)
Setup(g, f, t) ==
  LET f1 == [f EXCEPT !.Phi_c = t.Phi_c]
      f2 == [f1 EXCEPT !.lambda_0 = t.lambda_0]
      f3 == [f2 EXCEPT !.b = t.b]
      f4 == [f3 EXCEPT !.const = t.const]
  IN IF "math" \notin g THEN Raise(f, "NameError")
     ELSE IF IsExc(t.Phi_c) THEN Raise(f, t.Phi_c.k)
     ELSE IF IsExc(t.lambda_0) THEN Raise(f1, t.lambda_0.k)
     ELSE IF IsExc(t.b) THEN Raise(f2, t.b.k)
     ELSE IF IsExc(t.const) THEN Raise(f3, t.const.k)
     ELSE [f4 EXCEPT !.samples = <<>>, !.pc = "loop"]

\* lines 42-43 for one draw u
LoopCalc(lambda_0, const, cf, u) ==
  The({[x |-> xx, r |-> Ratio(xx, cf, lambda_0, const)] :
         xx \in {inverse_exp(u, lambda_0)}})

\* LoopCalc under the lambda_0 and const that lines 36 and 38 assigned for c
\* (the loop never assigns them), evaluated once per c and u
IterMemo ==
  {<<t[1], u, LoopCalc(t[2].lambda_0, t[2].const, FromInt(t[1]), u)>> :
     t \in TuneMemo, u \in Uniform("closed")}
LoopCalcOf(cc, u) == (CHOOSE p \in IterMemo : p[1] = cc /\ p[2] = u)[3]

Bump(k, by) == IF k + by > DrawCap THEN DrawCap ELSE k + by

Iterating(f, nn) == f.pc = "loop" /\ LoopCond(f.samples, nn)
AtExit(f, nn) == f.pc = "loop" /\ ~LoopCond(f.samples, nn)

\* lines 41-46: one pass of the while loop with the draws u and coin
LoopBody(g, f, nn, cc, k, u, coin) ==
  LET f1 == [f EXCEPT !.x_inv = u, !.drawn = <<u>>, !.ndraws = Bump(f.ndraws, 1)]
      f2 == [f1 EXCEPT !.x = k.x]
      f3 == [f2 EXCEPT !.r = k.r]
      f4 == [f3 EXCEPT !.coin = coin, !.drawn = <<u, coin>>,
                       !.ndraws = Bump(f.ndraws, 2)]
  IN IF ~Iterating(f, nn) THEN f
     ELSE IF "np" \notin g THEN Raise(f, "NameError")
     ELSE IF IsExc(k.x) THEN Raise(f1, k.x.k)
     ELSE IF IsExc(k.r) THEN Raise(f2, k.r.k)
     ELSE IF Accepts(coin, k.r)
          THEN [f4 EXCEPT !.samples = Appended(f.samples, k.x, FromInt(cc))]
     ELSE f4

\* line 47: return np.array(samples)
Ret(g, f, nn) ==
  IF ~AtExit(f, nn) THEN f
  ELSE IF "np" \notin g THEN Raise(f, "NameError")
  ELSE [f EXCEPT !.pc = "done"]

(* ------------------------------ the actions ----------------------------- *)

InitOf(sources) ==
  /\ n \in NValues
  /\ c \in CValues
  /\ source \in sources
  /\ fn = Frame0
  /\ cls = Frame0

\* numpy's uniform() draws from [0, 1)
Init == InitOf({"half_open"})
InitSrc == InitOf({"half_open", "closed"})

\* both samplers are called with the same n and c
Call ==
  /\ fn.pc = "call"
  /\ \E t \in {TuneOf(c)} :
       /\ fn' = Setup(TGS_globals, fn, t)
       /\ cls' = Setup(MCS_globals, cls, t)
  /\ UNCHANGED <<n, c, source>>

\* one pass of the while loop, both samplers fed the same draws
Iterate ==
  /\ Iterating(fn, n) \/ Iterating(cls, n)
  /\ \E u \in Uniform(source), coin \in Uniform(source) :
       \E k \in {LoopCalcOf(c, u)} :
         /\ fn' = LoopBody(TGS_globals, fn, n, c, k, u, coin)
         /\ cls' = LoopBody(MCS_globals, cls, n, c, k, u, coin)
  /\ UNCHANGED <<n, c, source>>

Return ==
  /\ AtExit(fn, n) \/ AtExit(cls, n)
  /\ fn' = Ret(TGS_globals, fn, n)
  /\ cls' = Ret(MCS_globals, cls, n)
  /\ UNCHANGED <<n, c, source>>

Next == Call \/ Iterate \/ Return

Spec == Init /\ [][Next]_vars
SpecSrc == InitSrc /\ [][Next]_vars

\* a pass of the loop that stores a sample
Accept == Iterate /\ Len(fn'.samples) > Len(fn.samples)

\* the interpreter keeps running the call, and accepting draws are not
\* withheld for ever
FairSpec == Init /\ [][Next]_vars /\ WF_vars(Next) /\ SF_vars(Accept)

(* ------------------------------ the claims ------------------------------ *)

\* C1: whenever truncated_gaussian_sampler(n, c) with n >= 0 returns, the
\* returned sequence has exactly n elements, whatever draws occurred; the
\* demonstration run n = 1, c = 4 returns exactly one value.
C1_LengthOnReturn ==
  (fn.pc = "done" /\ n >= 0) => Len(fn.samples) = n

\* the demonstration run has returned its one value, which is >= 4
C1_DemoReturned ==
  /\ n = 1 /\ c = 4 /\ fn.pc = "done"
  /\ Len(fn.samples) = 1 /\ FLe(Four, fn.samples[1])

\* C2: in every state of the rejection loop, and on return, each stored
\* sample s satisfies s >= c, and each candidate x computed from a draw u in
\* [0, 1) is >= 0.
C2_SamplesAtLeastC ==
  /\ \A i \in 1 .. Len(fn.samples) : FLe(FromInt(c), fn.samples[i])
  /\ IsFin(fn.x) => FLe(Zero, fn.x)

\* a sample strictly above c is stored while the loop is still running
C2_StoredAboveC ==
  /\ fn.pc = "loop"
  /\ \E i \in 1 .. Len(fn.samples) : FLt(FromInt(c), fn.samples[i])

\* C3 (as stated): the acceptance ratio r computed in a loop iteration lies
\* in [0, 1] for every c.  Line 43 multiplies phi(x+c)/expo(x, lambda_0) by
\* const where the envelope bound calls for dividing by it, so r peaks at
\* const^2 times the intended ratio: at c = -1, u = 0.5 it is about 1.86.
C3_RatioInUnitInterval ==
  IsFin(fn.r) => (FLe(Zero, fn.r) /\ FLe(fn.r, One))

\* C4 (as stated): for n = 0 and any c the call returns an empty sequence
\* without a uniform draw.  At c = 25 line 35 raises OverflowError (x**249.0
\* in err leaves the double range), so nothing is returned.
C4_ZeroReturnsEmpty ==
  n = 0 => /\ fn.pc # "raised"
           /\ fn.ndraws = 0
           /\ fn.samples = <<>>
           /\ (fn.pc = "call" \/ AtExit(fn, n) \/ fn.pc = "done")

C6_RatePositive ==
  /\ IsFin(fn.lambda_0) => FLt(Zero, fn.lambda_0)
  /\ (c = 0 /\ fn.pc # "call") => fn.lambda_0 = One
  /\ fn.exc # "ZeroDivisionError"
  /\ (IsFin(fn.x_inv) /\ fn.pc # "raised") => (IsFin(fn.x) /\ FLe(Zero, fn.x))

\* a candidate has been computed by dividing by the small rate of c = -24
C6_SmallRateDivides ==
  /\ c = 0 - 24 /\ fn.pc = "loop"
  /\ FLt(Zero, fn.lambda_0) /\ FLt(fn.lambda_0, One)
  /\ IsFin(fn.x) /\ FLt(Zero, fn.x)

\* what one step does to a frame: a pass of the loop draws u then coin and
\* appends x + c when coin < r; no other step touches samples or draws
OnePass(old, new) ==
  IF Iterating(old, n)
  THEN /\ new.pc = "loop"
       /\ new.drawn = <<new.x_inv, new.coin>>
       /\ new.ndraws = Bump(old.ndraws, 2)
       /\ new.x = inverse_exp(new.x_inv, old.lambda_0)
       /\ new.samples = IF FLt(new.coin, new.r)
                        THEN Append(old.samples, FAdd(new.x, FromInt(c)))
                        ELSE old.samples
  ELSE /\ new.samples = old.samples
       /\ new.ndraws = old.ndraws

\* C7: each loop iteration draws exactly two uniforms, u first and coin
\* second, and appends the iteration's x + c at the end of the samples iff
\* coin < r; otherwise, and in every other step, the samples are unchanged,
\* so stored elements are never removed, modified or reordered.
C7_IterationEffect ==
  [][OnePass(fn, fn') /\ OnePass(cls, cls')]_vars

\* two different samples are stored, the second being the last pass's x + c
C7_TwoInOrder ==
  /\ Len(fn.samples) = 2 /\ fn.samples[1] # fn.samples[2]
  /\ fn.samples[2] = FAdd(fn.x, FromInt(c))
  /\ fn.drawn = <<fn.x_inv, fn.coin>> /\ FLt(fn.coin, fn.r)

\* C8 (as stated): whether u is drawn from [0, 1) or from [0, 1], no loop
\* iteration raises an error.  A source that includes 1.0 can return u = 1.0,
\* and inverse_exp then takes math.log(0.0), which raises ValueError.
C8_NoRaiseInLoop ==
  ~(fn.pc = "raised" /\ fn.ndraws > 0)

\* C8 (amended): including the lower endpoint 0 is immaterial, but the upper
\* endpoint must be excluded.  With u from [0, 1) no loop iteration raises;
\* an iteration raises only when the source includes 1.0 and returns it, and
\* then it is ValueError from math.log(0.0), before coin is drawn.  Under
\* either source, a call that returns has n samples (n >= 0), all >= c.
C8_OnlyUpperEndpointMatters ==
  /\ (fn.pc = "raised" /\ fn.ndraws > 0) =>
       /\ source = "closed"
       /\ fn.x_inv = One
       /\ fn.exc = "ValueError"
       /\ fn.drawn = <<fn.x_inv>>
  /\ (fn.pc = "loop" /\ IsFin(fn.x_inv)) =>
       /\ fn.x_inv # One
       /\ fn.x = inverse_exp(fn.x_inv, fn.lambda_0)
       /\ IsFin(fn.x)
  /\ (fn.pc = "done" /\ n >= 0) =>
       /\ Len(fn.samples) = n
       /\ \A i \in 1 .. n : FLe(FromInt(c), fn.samples[i])

\* the closed source has returned u = 1.0 and the iteration has raised
C8_ClosedSourceRaises ==
  /\ source = "closed" /\ fn.pc = "raised" /\ fn.exc = "ValueError"
  /\ fn.x_inv = One /\ fn.ndraws > 0

\* C9 (as stated): given the same n, c and draws, the class-based and the
\* function-based sampler pass through the same states, return the same
\* samples and raise the same errors.  MonteCarloSampler.py imports neither
\* math nor numpy, so its sampler raises NameError on line 29 for every
\* input, where the function-based one goes on to sample.
C9_SameSampler ==
  cls = fn

\* C10 (as stated): for n < 0 both samplers compute the proposal parameters,
\* never enter the loop, draw nothing, raise no error and return an empty
\* sequence.  The class-based sampler raises NameError (C9), and the
\* function-based one raises OverflowError at c = 25 (C4).
C10_NegativeAsZero ==
  n < 0 => /\ fn.pc # "raised" /\ cls.pc # "raised"
           /\ fn.ndraws = 0 /\ cls.ndraws = 0
           /\ fn.samples = <<>> /\ cls.samples = <<>>
           /\ ~Iterating(fn, n) /\ ~Iterating(cls, n)

=============================================================================
